---- MODULE Spec2Model ----
(***************************************************************************)
(* glymur.tiff.Tiff2Jp2k: transcoding of a tiled TIFF into a JPEG 2000     *)
(* file, as a state machine.  One behaviour is one                         *)
(*     with Tiff2Jp2k(tiff, jp2, tilesize) as t: t.run()                   *)
(* The steps of run() are the actions; the libtiff wrapper and Jp2k are    *)
(* collaborators whose results are given by operators.                     *)
(***************************************************************************)
EXTENDS Integers, Sequences, FiniteSets, TLC

\* ------------------------------------------------------------------ bounds
MaxH == 6
MaxW == 4
MaxSpp == 4
\* the bounds of the specification with fairness
LiveMaxH == 3
LiveMaxW == 2
LiveMaxSpp == 1

\* libtiff.SampleFormat.UINT
UINT == 1
SampleFormats == {1, 2}
BitDepths == {8, 16}

\* self.tilesize is None / a Jp2k written without tiles
None == <<0, 0>>
\* an unbound array
NoArray == <<>>
\* no destination object
NoJp2k == [created |-> FALSE, shape |-> <<0, 0, 0>>, tilesize |-> None]

VARIABLES
    pc,           \* position of the caller / of run()
    handle,       \* self.tiff_fp: "none", "open", "closed"
    closes,       \* number of libtiff.close calls
    tiled,        \* what libtiff.isTiled answers for the source file
    tilesize,     \* self.tilesize: None or <<jth, jtw>>
    imagewidth, imageheight, spp, sf, bps, tw, th,   \* locals of run (0: unbound)
    fieldReads,   \* number of getFieldDefaulted calls made
    strategy,     \* which branch of the if/elif chain was taken
    exc,          \* the exception propagating out of run, "none" if none
    jp2,          \* the destination Jp2k object: [created, shape, tilesize]
    writes,       \* what was handed to the destination, in order
    image,        \* local of the first branch
    tile,         \* local scratch buffer (th, tw, spp)
    jp2k_tile,    \* local scratch buffer (jth, jtw, spp)
    tiff_tile,    \* local scratch buffer (th, tw, spp)
    idx,          \* loop variable of enumerate(jp2.get_tilewriters())
    y, x,         \* loop variables of the two range() loops
    visited,      \* the copy steps made for destination tile idx so far
    reads         \* number of readEncodedTile / readRGBAImageOriented calls

fields == <<imagewidth, imageheight, spp, sf, bps, tw, th>>
bufs   == <<image, tile, jp2k_tile, tiff_tile>>
loop   == <<idx, y, x, visited>>
out    == <<jp2, writes>>
vars   == <<pc, handle, closes, tiled, tilesize, fields, fieldReads, strategy,
            exc, out, bufs, loop, reads>>

\* ----------------------------------------------------------------- helpers
Min(a, b) == IF a < b THEN a ELSE b
Max(a, b) == IF a > b THEN a ELSE b

\* An array of shape (h, w, n): a function of <<row, col>> to n samples.
Cells(h, w) == (0 .. h - 1) \X (0 .. w - 1)

\* np.zeros((h, w, n), dtype=np.uint8)
Zeros(h, w, n) == [p \in Cells(h, w) |-> [k \in 1 .. n |-> 0]]

\* The source raster: sample k of the pixel at (r, c).  Every sample of the
\* image is different from every other and from 0, so that a pixel copied
\* from the wrong place, or never copied, shows.
Sample(r, c, k) == ((r * imagewidth + c) * spp + k) % 256

Pixel(r, c) == [k \in 1 .. spp |-> Sample(r, c, k)]

\* ------------------------------------------------ collaborators: libtiff
\* Number of tile columns of the source grid.
TiffTileCols == (imagewidth + tw - 1) \div tw

\* libtiff.computeTile(fp, x, y, 0, 0): the row-major index of the tile
\* holding pixel (x, y).
ComputeTile(px, py) == (py \div th) * TiffTileCols + (px \div tw)

\* libtiff.readEncodedTile(fp, tilenum, buf): the decoded tile tilenum.
ReadEncodedTile(tilenum) ==
    LET r0 == (tilenum \div TiffTileCols) * th
        c0 == (tilenum % TiffTileCols) * tw
    IN  [p \in Cells(th, tw) |-> Pixel(r0 + p[1], c0 + p[2])]

\* libtiff.readRGBAImageOriented(fp): the whole image, four samples a pixel.
RGBASample(r, c, k) ==
    IF k <= 3
    THEN (IF spp >= 3 THEN Sample(r, c, k) ELSE Sample(r, c, 1))
    ELSE (IF spp >= 4 THEN Sample(r, c, 4) ELSE 255)

ReadRGBAImageOriented ==
    [p \in Cells(imageheight, imagewidth) |->
        [k \in 1 .. 4 |-> RGBASample(p[1], p[2], k)]]

\* --------------------------------------------------- collaborators: Jp2k
\* Number of tile writers jp2.get_tilewriters() yields, in row-major order.
NumTileWriters ==
    IF ~jp2.created \/ jp2.tilesize = None THEN 0
    ELSE (jp2.shape[1] \div jp2.tilesize[1]) * (jp2.shape[2] \div jp2.tilesize[2])

\* Number of channels of an array.
NChannels(a) == IF DOMAIN a = {} THEN 0 ELSE Len(a[<<0, 0>>])

\* ------------------------------------------------------------ construction
\* Tiff2Jp2k(tiff_filename, jp2_filename, tilesize)
Constructed(mh, mw) ==
    /\ pc = "constructed"
    /\ handle = "none"
    /\ closes = 0
    /\ tiled \in BOOLEAN
    /\ tilesize \in {None} \cup ((1 .. mh) \X (1 .. mw))
    /\ imagewidth = 0 /\ imageheight = 0 /\ spp = 0 /\ sf = 0 /\ bps = 0
    /\ tw = 0 /\ th = 0
    /\ fieldReads = 0
    /\ strategy = "unselected"
    /\ exc = "none"
    /\ jp2 = NoJp2k
    /\ writes = <<>>
    /\ image = NoArray /\ tile = NoArray /\ jp2k_tile = NoArray
    /\ tiff_tile = NoArray
    /\ idx = 0 /\ y = 0 /\ x = 0 /\ visited = <<>>
    /\ reads = 0

Init == Constructed(MaxH, MaxW)

\* The frame of run() is left: its locals are gone.
LocalsGone ==
    /\ imagewidth' = 0 /\ imageheight' = 0 /\ spp' = 0 /\ sf' = 0 /\ bps' = 0
    /\ tw' = 0 /\ th' = 0
    /\ image' = NoArray /\ tile' = NoArray /\ jp2k_tile' = NoArray
    /\ tiff_tile' = NoArray
    /\ idx' = 0 /\ y' = 0 /\ x' = 0 /\ visited' = <<>>

\* __enter__
Enter ==
    /\ pc = "constructed"
    /\ handle' = "open"
    /\ pc' = "run"
    /\ UNCHANGED <<closes, tiled, tilesize, fields, fieldReads, strategy, exc,
                   out, bufs, loop, reads>>

\* __exit__ is called when the body of the with statement is left, by a
\* return or by an exception.
ExitOnReturnOnly == pc = "returned"

ExitEnabled == pc \in {"returned", "raised"}

Exit ==
    /\ ExitEnabled
    /\ handle' = "closed"
    /\ closes' = closes + 1
    /\ pc' = "closed"
    /\ UNCHANGED <<tiled, tilesize, fields, fieldReads, strategy, exc, out,
                   bufs, loop, reads>>

\* ------------------------------------------------------------------- run()
\* if not libtiff.isTiled(self.tiff_fp): raise NotImplementedError
RejectsTiled == tiled

RejectsLayout == ~tiled

IsTiledCheck ==
    /\ pc = "run"
    /\ IF RejectsLayout
       THEN pc' = "raised" /\ exc' = "NotImplementedError"
       ELSE pc' = "fields" /\ exc' = exc
    /\ UNCHANGED <<handle, closes, tiled, tilesize, fields, fieldReads,
                   strategy, out, bufs, loop, reads>>

\* The conditions of the if/elif chain, of the fields as read.
LargerThanImage(w, h, tw_, th_) == tw_ > w /\ th_ > h

EvenlyTiledUint8(w, h, tw_, th_, bps_, sf_) ==
    /\ (w % tw_) = 0
    /\ (h % th_) = 0
    /\ bps_ = 8
    /\ sf_ = UINT

IdentityCond(w, h, tw_, th_, bps_, sf_) ==
    /\ EvenlyTiledUint8(w, h, tw_, th_, bps_, sf_)
    /\ tilesize = None

RegridCond(w, h, tw_, th_, bps_, sf_) ==
    /\ EvenlyTiledUint8(w, h, tw_, th_, bps_, sf_)
    /\ tilesize # None
    /\ h % tilesize[1] = 0
    /\ w % tilesize[2] = 0

\* libtiff.RGBAImageOK answers ok; it is asked only when the tile is larger
\* than the image ("and" short-circuits).
WholeCond(w, h, tw_, th_, ok) == LargerThanImage(w, h, tw_, th_) /\ ok

\* jth, jtw = self.tilesize
jth == tilesize[1]
jtw == tilesize[2]

\* the coordinates of the upper left pixel of jp2k tile i
num_jp2k_tile_cols == imagewidth \div jtw
Julr(i) == (i \div num_jp2k_tile_cols) * jth
Julc(i) == (i % num_jp2k_tile_cols) * jtw

\* the bounds and steps of the two range() loops for jp2k tile i
YStop(i) == Min(Julr(i) + jth, imageheight)
XStop(i) == Min(Julc(i) + jtw, imagewidth)
YStepOfJp2k == jth

YStep == th
XStep == tw

\* The seven getFieldDefaulted calls bind the locals.
FieldsBound(w, h, n, sf_, bps_, tw_, th_) ==
    /\ imagewidth' = w /\ imageheight' = h /\ spp' = n /\ sf' = sf_
    /\ bps' = bps_ /\ tw' = tw_ /\ th' = th_

\* The fields of the source are read, and the first branch of the if/elif
\* chain whose condition holds is entered.  With no branch entered, run falls
\* off the end of the chain and returns.  (A tile is modelled as at most one
\* pixel larger than the image; mw, mh, mn bound the image read.)
SelectWithin(mw, mh, mn) ==
    /\ pc = "fields"
    /\ fieldReads' = fieldReads + 7
    /\ \E w \in 1 .. mw, h \in 1 .. mh, n \in 1 .. mn,
          sf_ \in SampleFormats, bps_ \in BitDepths :
       \E tw_ \in 1 .. w + 1, th_ \in 1 .. h + 1, ok \in BOOLEAN :
       \/ /\ WholeCond(w, h, tw_, th_, ok)
          /\ strategy' = "whole"
          /\ pc' = "whole"
          /\ FieldsBound(w, h, n, sf_, bps_, tw_, th_)
          /\ UNCHANGED <<bufs, loop, out>>
       \/ /\ ~WholeCond(w, h, tw_, th_, ok)
          /\ IdentityCond(w, h, tw_, th_, bps_, sf_)
          /\ strategy' = "identity"
          /\ FieldsBound(w, h, n, sf_, bps_, tw_, th_)
          /\ tile' = Zeros(th_, tw_, n)
          /\ jp2' = [created |-> TRUE, shape |-> <<h, w, n>>,
                     tilesize |-> <<th_, tw_>>]
          /\ idx' = 0
          /\ pc' = "copy"
          /\ UNCHANGED <<image, jp2k_tile, tiff_tile, y, x, visited, writes>>
       \/ /\ ~WholeCond(w, h, tw_, th_, ok)
          /\ ~IdentityCond(w, h, tw_, th_, bps_, sf_)
          /\ RegridCond(w, h, tw_, th_, bps_, sf_)
          /\ strategy' = "regrid"
          /\ FieldsBound(w, h, n, sf_, bps_, tw_, th_)
          /\ tile' = Zeros(th_, tw_, n)
          /\ jp2' = [created |-> TRUE, shape |-> <<h, w, n>>,
                     tilesize |-> tilesize]
          /\ jp2k_tile' = Zeros(jth, jtw, n)
          /\ tiff_tile' = Zeros(th_, tw_, n)
          /\ idx' = 0 /\ y' = 0 /\ x' = 0 /\ visited' = <<>>
          /\ pc' = "regrid"
          /\ UNCHANGED <<image, writes>>
       \/ /\ ~WholeCond(w, h, tw_, th_, ok)
          /\ ~IdentityCond(w, h, tw_, th_, bps_, sf_)
          /\ ~RegridCond(w, h, tw_, th_, bps_, sf_)
          /\ strategy' = "nomatch"
          /\ pc' = "returned"
          /\ LocalsGone
          /\ UNCHANGED out
    /\ UNCHANGED <<handle, closes, tiled, tilesize, exc, reads>>

Select == SelectWithin(MaxW, MaxH, MaxSpp)

\* ------------------------------------------------- branch 1: whole image
\* if spp < 4: image = image[:, :, :3]
DropsWhenFourOrMore == spp >= 4

DropsFourthChannel == spp < 4

FirstThree(a) == [p \in DOMAIN a |-> SubSeq(a[p], 1, 3)]

ReadWhole ==
    /\ pc = "whole"
    /\ image' = IF DropsFourthChannel
                THEN FirstThree(ReadRGBAImageOriented)
                ELSE ReadRGBAImageOriented
    /\ reads' = reads + 1
    /\ pc' = "emit"
    /\ UNCHANGED <<handle, closes, tiled, tilesize, fields, fieldReads,
                   strategy, exc, out, tile, jp2k_tile, tiff_tile, loop>>

\* Jp2k(self.jp2_filename, data=image), and run returns.
EmitWhole ==
    /\ pc = "emit"
    /\ jp2' = [created |-> TRUE,
               shape |-> <<imageheight, imagewidth, NChannels(image)>>,
               tilesize |-> None]
    /\ writes' = Append(writes, [kind |-> "image", idx |-> 0, buf |-> image])
    /\ pc' = "returned"
    /\ LocalsGone
    /\ UNCHANGED <<handle, closes, tiled, tilesize, fieldReads, strategy, exc,
                   reads>>

\* ---------------------------------------------- branch 2: identity copy
\* libtiff.readEncodedTile(self.tiff_fp, idx, tile)
NextSourceIndex(i) == i + 1

IdentitySourceIndex(i) == i

CopyTile ==
    /\ pc = "copy"
    /\ idx < NumTileWriters
    /\ tile' = ReadEncodedTile(IdentitySourceIndex(idx))
    /\ reads' = reads + 1
    /\ writes' = Append(writes, [kind |-> "tile", idx |-> idx, buf |-> tile'])
    /\ idx' = idx + 1
    /\ UNCHANGED <<pc, handle, closes, tiled, tilesize, fields, fieldReads,
                   strategy, exc, jp2, image, jp2k_tile, tiff_tile, y, x,
                   visited>>

\* The tile writers are exhausted: the loop ends and run returns.
LoopDone ==
    /\ pc \in {"copy", "regrid"}
    /\ idx = NumTileWriters
    /\ pc' = "returned"
    /\ LocalsGone
    /\ UNCHANGED <<handle, closes, tiled, tilesize, fieldReads, strategy, exc,
                   out, reads>>

\* ---------------------------------------------------- branch 3: regridding
\* The body of the two range() loops, for the current idx, y, x.
tilenum == ComputeTile(x, y)
num_tiff_tile_cols == imagewidth \div tw
tiff_tile_row == tilenum \div num_tiff_tile_cols
tiff_tile_col == tilenum % num_tiff_tile_cols
\* the coordinates of the upper left pixel of the TIFF tile
tulr == tiff_tile_row * th
tulc == tiff_tile_col * tw
julr == Julr(idx)
julc == Julc(idx)
\* the section coordinates in image space
ulr == Max(julr, tulr)
llr == Min(julr + jth, tulr + th)
ulc == Max(julc, tulc)
urc == Min(julc + jtw, tulc + tw)
\* convert to JP2K tile coordinates: slice(start, stop) as <<start, stop>>
J2kRowStopNoWrap == llr % jth

J2kRowStop == ((llr - 1) % jth) + 1
j2k_rows == <<ulr % jth, J2kRowStop>>
j2k_cols == <<ulc % jtw, ((urc - 1) % jtw) + 1>>
\* convert to TIFF tile coordinates
tiff_rows == <<ulr % th, ((llr - 1) % th) + 1>>
tiff_cols == <<ulc % tw, ((urc - 1) % tw) + 1>>

\* Python's slice(start, stop) on an axis of length n: its first index and
\* the number of indices it selects.
SliceStart(s, n) == Min(s[1], n)
SliceLen(s, n) == Max(0, Min(s[2], n) - Min(s[1], n))

\* numpy's a[rows, cols, :] = b[brows, bcols, :] : whether the shapes agree
\* (an axis of length 1 on the right is broadcast), and the array a becomes.
ShapesAgree(dh, dw, sh, sw) ==
    /\ (sh = dh \/ sh = 1)
    /\ (sw = dw \/ sw = 1)

AssignSlices(a, rows, cols, ah, aw, b, brows, bcols, bh, bw) ==
    LET dr == SliceStart(rows, ah)
        dh == SliceLen(rows, ah)
        dc == SliceStart(cols, aw)
        dw == SliceLen(cols, aw)
        sr == SliceStart(brows, bh)
        sh == SliceLen(brows, bh)
        sc == SliceStart(bcols, bw)
        sw == SliceLen(bcols, bw)
    IN  [p \in DOMAIN a |->
            IF /\ dr <= p[1] /\ p[1] < dr + dh
               /\ dc <= p[2] /\ p[2] < dc + dw
            THEN b[<<sr + (IF sh = 1 THEN 0 ELSE p[1] - dr),
                     sc + (IF sw = 1 THEN 0 ELSE p[2] - dc)>>]
            ELSE a[p]]

CopyShapesAgree ==
    ShapesAgree(SliceLen(j2k_rows, jth), SliceLen(j2k_cols, jtw),
                SliceLen(tiff_rows, th), SliceLen(tiff_cols, tw))

\* What one iteration of the inner loop records about itself.
CopyRecord ==
    [tilenum |-> tilenum, ulr |-> ulr, llr |-> llr, ulc |-> ulc, urc |-> urc,
     j2k_rows |-> j2k_rows, j2k_cols |-> j2k_cols,
     tiff_rows |-> tiff_rows, tiff_cols |-> tiff_cols]

\* One iteration of the inner loop: the source tile holding (x, y) is read
\* and its section copied into the jp2k tile; a shape mismatch (ValueError)
\* enters the debugger.  Then the range() loops advance.
CopyStep ==
    /\ pc = "regrid"
    /\ idx < NumTileWriters
    /\ y < YStop(idx)
    /\ tiff_tile' = ReadEncodedTile(tilenum)
    /\ reads' = reads + 1
    /\ visited' = Append(visited, CopyRecord)
    /\ IF CopyShapesAgree
       THEN /\ jp2k_tile' = AssignSlices(jp2k_tile, j2k_rows, j2k_cols, jth, jtw,
                                        tiff_tile', tiff_rows, tiff_cols, th, tw)
            /\ IF x + XStep < XStop(idx)
               THEN x' = x + XStep /\ y' = y
               ELSE x' = julc /\ y' = y + YStep
            /\ UNCHANGED <<pc, exc>>
       ELSE /\ pc' = "breakpoint"
            /\ exc' = "ValueError"
            /\ UNCHANGED <<jp2k_tile, x, y>>
    /\ UNCHANGED <<handle, closes, tiled, tilesize, fields, fieldReads,
                   strategy, out, image, tile, idx>>

\* tilewriter[:] = jp2k_tile, after the range() loops of this jp2k tile; the
\* next tile writer is taken.
EmitTile ==
    /\ pc = "regrid"
    /\ idx < NumTileWriters
    /\ y >= YStop(idx)
    /\ writes' = Append(writes, [kind |-> "tile", idx |-> idx, buf |-> jp2k_tile])
    /\ idx' = idx + 1
    /\ y' = Julr(idx + 1)
    /\ x' = Julc(idx + 1)
    /\ visited' = <<>>
    /\ UNCHANGED <<pc, handle, closes, tiled, tilesize, fields, fieldReads,
                   strategy, exc, jp2, bufs, reads>>

\* readEncodedTile fails on the source (an unreadable tile): the libtiff
\* wrapper raises and the exception leaves run.
TileReadFails ==
    /\ \/ pc = "copy" /\ idx < NumTileWriters
       \/ pc = "regrid" /\ idx < NumTileWriters /\ y < YStop(idx)
    /\ exc' = "RuntimeError"
    /\ pc' = "raised"
    /\ LocalsGone
    /\ UNCHANGED <<handle, closes, tiled, tilesize, fieldReads, strategy, out,
                   reads>>

\* ------------------------------------------------------------ specification
Next ==
    \/ Enter
    \/ IsTiledCheck
    \/ Select
    \/ ReadWhole
    \/ EmitWhole
    \/ CopyTile
    \/ CopyStep
    \/ EmitTile
    \/ LoopDone
    \/ TileReadFails
    \/ Exit

Spec == Init /\ [][Next]_vars

\* The same program on smaller sources, for the properties of its whole
\* behaviours.  The program is sequential and every call returns or raises:
\* a step that can be taken is taken.
LiveInit == Constructed(LiveMaxH, LiveMaxW)

SelectLive == SelectWithin(LiveMaxW, LiveMaxH, LiveMaxSpp)

LiveNext ==
    \/ Enter
    \/ IsTiledCheck
    \/ SelectLive
    \/ ReadWhole
    \/ EmitWhole
    \/ CopyTile
    \/ CopyStep
    \/ EmitTile
    \/ LoopDone
    \/ TileReadFails
    \/ Exit

FairSpec == LiveInit /\ [][LiveNext]_vars /\ WF_vars(LiveNext)

\* ------------------------------------------------------------------ claims
\* The pixels of the source image under destination tile k of a grid of
\* (h_, w_) tiles, in tile-local coordinates.
DestTile(k, h_, w_) ==
    LET cols == imagewidth \div w_
    IN  [p \in Cells(h_, w_) |->
            Pixel((k \div cols) * h_ + p[1], (k % cols) * w_ + p[2])]

\* The tile loop of a branch has written its last tile.
LoopFinished(branch) == pc = branch /\ idx = NumTileWriters

\* The range() loops of jp2k tile idx are over: the tile is about to be
\* written.
TileAssembled == pc = "regrid" /\ idx < NumTileWriters /\ y >= YStop(idx)

\* C1: regridding round trip.  When the regridding loop has finished, there
\* is one written buffer per destination tile and each, put at its row-major
\* tile origin, equals the source image there, whatever the two tile sizes
\* dividing the image are.
C1_RegridRoundTrip ==
    LoopFinished("regrid") =>
        /\ Len(writes) = (imageheight \div jth) * (imagewidth \div jtw)
        /\ \A k \in 1 .. Len(writes) : writes[k].buf = DestTile(k - 1, jth, jtw)

\* C2: no silent fallback.  A tiled source that matches none of the three
\* branches makes run raise the unsupported-raster-configuration error, with
\* no destination created and nothing written.
C2_NoSilentFallback ==
    strategy = "nomatch" =>
        /\ exc = "UnsupportedRasterConfiguration"
        /\ ~jp2.created
        /\ writes = <<>>

\* C3 as claimed: in the whole-image branch the image handed to Jp2k has
\* exactly the first three channels when SamplesPerPixel >= 4, and is the
\* image as read when SamplesPerPixel <= 3.
C3_TruncationAsClaimed ==
    pc = "emit" =>
        /\ spp >= 4 => (NChannels(image) = 3
                        /\ image = FirstThree(ReadRGBAImageOriented))
        /\ spp <= 3 => image = ReadRGBAImageOriented

\* C3 amended: in the whole-image branch the image handed to Jp2k has exactly
\* the first three channels of the RGBA image read when SamplesPerPixel < 4,
\* and is the RGBA image as read, all four channels, when SamplesPerPixel >= 4.
C3_Truncation ==
    pc = "emit" =>
        /\ spp < 4 => (NChannels(image) = 3
                       /\ image = FirstThree(ReadRGBAImageOriented))
        /\ spp >= 4 => (NChannels(image) = 4
                        /\ image = ReadRGBAImageOriented)

C3_Witness == pc = "emit" /\ spp >= 4 /\ NChannels(image) = 4

\* C4: identity tile copy.  In the identity branch the destination has the
\* shape and the tile shape of the source, and the k-th buffer written goes to
\* destination tile k and is the buffer decoded from source tile k; when the
\* loop has finished every tile of the grid has been written.
C4_IdentityCopy ==
    pc = "copy" =>
        /\ jp2.shape = <<imageheight, imagewidth, spp>>
        /\ jp2.tilesize = <<th, tw>>
        /\ Len(writes) = idx
        /\ \A k \in 1 .. Len(writes) :
              /\ writes[k].kind = "tile"
              /\ writes[k].idx = k - 1
              /\ writes[k].buf = ReadEncodedTile(k - 1)
        /\ LoopFinished("copy") =>
              Len(writes) = (imageheight \div th) * (imagewidth \div tw)

C4_Witness == LoopFinished("copy") /\ Len(writes) >= 4 /\ th > 1 /\ tw > 1

\* C5: a striped source is rejected first.  Once run has started on a
\* striped source, NotImplementedError is raised, no field of the source has
\* been read, no branch chosen, no destination created, nothing read or
\* written, whatever the tilesize.
C5_StripedRejected ==
    (~tiled /\ pc \notin {"constructed", "run"}) =>
        /\ exc = "NotImplementedError"
        /\ fieldReads = 0
        /\ strategy = "unselected"
        /\ ~jp2.created
        /\ writes = <<>>
        /\ reads = 0

C5_Witness == ~tiled /\ pc = "raised" /\ tilesize # None

\* The writes of a tile loop are numbered from 0 in order.
WritesInOrder ==
    \A k \in 1 .. Len(writes) : writes[k].kind = "tile" /\ writes[k].idx = k - 1

\* C6: emission order and count.  In the identity and regridding branches
\* the k-th write goes to tile k and carries the content of destination tile
\* (k div colCount, k mod colCount), and a finished loop has made
\* rowCount * colCount writes; the whole-image branch makes exactly one
\* whole-image write.
C6_EmissionOrder ==
    /\ pc \in {"copy", "regrid"} =>
          /\ WritesInOrder
          /\ \A k \in 1 .. Len(writes) :
                writes[k].buf = DestTile(k - 1, jp2.tilesize[1], jp2.tilesize[2])
          /\ idx = NumTileWriters =>
                Len(writes) = (imageheight \div jp2.tilesize[1])
                              * (imagewidth \div jp2.tilesize[2])
    /\ (strategy = "whole" /\ pc \in {"returned", "closed"}) =>
          (Len(writes) = 1 /\ writes[1].kind = "image")

\* The part of C6 about order and count alone, without the content.
EmissionOrderAndCount ==
    /\ pc \in {"copy", "regrid"} =>
          /\ WritesInOrder
          /\ Len(writes) = idx
          /\ idx = NumTileWriters =>
                Len(writes) = (imageheight \div jp2.tilesize[1])
                              * (imagewidth \div jp2.tilesize[2])
    /\ (strategy = "whole" /\ pc \in {"returned", "closed"}) =>
          (Len(writes) = 1 /\ writes[1].kind = "image")

\* C7: guaranteed release.  Once the source handle is open, the run reaches
\* Closed with the handle released, and released once; the handle is never
\* released twice; and after the release no tile is read or written.
C7_GuaranteedRelease ==
    /\ [](handle = "open" =>
            <>(pc = "closed" /\ handle = "closed" /\ closes = 1))
    /\ [](closes <= 1)
    /\ [][handle = "closed" => (reads' = reads /\ writes' = writes)]_vars

C7_Witness ==
    /\ pc = "closed" /\ handle = "closed" /\ closes = 1
    /\ exc = "RuntimeError" /\ Len(writes) >= 1

\* The source tiles whose footprint meets destination tile i.
Intersecting(i) ==
    {t \in 0 .. (imageheight \div th) * (imagewidth \div tw) - 1 :
        LET r0 == (t \div num_tiff_tile_cols) * th
            c0 == (t % num_tiff_tile_cols) * tw
        IN  /\ Max(r0, Julr(i)) < Min(r0 + th, Julr(i) + jth)
            /\ Max(c0, Julc(i)) < Min(c0 + tw, Julc(i) + jtw)}

\* The copy steps of the current destination tile whose rectangle holds
\* image pixel (r, c).
Covering(r, c) ==
    {k \in 1 .. Len(visited) :
        /\ visited[k].ulr <= r /\ r < visited[k].llr
        /\ visited[k].ulc <= c /\ c < visited[k].urc}

\* C8: disjoint coverage.  For every destination tile the source tiles the
\* scan visits are exactly those meeting the tile, and every pixel of the
\* tile lies in exactly one of the intersection rectangles.
C8_DisjointCoverage ==
    TileAssembled =>
        /\ {visited[k].tilenum : k \in 1 .. Len(visited)} = Intersecting(idx)
        /\ \A r \in julr .. julr + jth - 1, c \in julc .. julc + jtw - 1 :
              Cardinality(Covering(r, c)) = 1

\* C9: copy-region consistency.  Every copy step made has a non-empty
\* rectangle whose two local slices are the rectangle minus the origin of
\* the jp2k tile and of the TIFF tile, lie inside the two tiles and have the
\* same height and width; the ValueError branch is never entered.
C9_CopyRegionConsistent ==
    /\ pc # "breakpoint"
    /\ exc # "ValueError"
    /\ pc = "regrid" =>
          \A k \in 1 .. Len(visited) :
            LET v == visited[k]
                r0 == (v.tilenum \div num_tiff_tile_cols) * th
                c0 == (v.tilenum % num_tiff_tile_cols) * tw
            IN  /\ v.ulr < v.llr /\ v.ulc < v.urc
                /\ v.j2k_rows = <<v.ulr - julr, v.llr - julr>>
                /\ v.j2k_cols = <<v.ulc - julc, v.urc - julc>>
                /\ v.tiff_rows = <<v.ulr - r0, v.llr - r0>>
                /\ v.tiff_cols = <<v.ulc - c0, v.urc - c0>>
                /\ 0 <= v.j2k_rows[1] /\ v.j2k_rows[2] <= jth
                /\ 0 <= v.j2k_cols[1] /\ v.j2k_cols[2] <= jtw
                /\ 0 <= v.tiff_rows[1] /\ v.tiff_rows[2] <= th
                /\ 0 <= v.tiff_cols[1] /\ v.tiff_cols[2] <= tw
                /\ v.j2k_rows[2] - v.j2k_rows[1] = v.tiff_rows[2] - v.tiff_rows[1]
                /\ v.j2k_cols[2] - v.j2k_cols[1] = v.tiff_cols[2] - v.tiff_cols[1]

C9_Witness ==
    /\ pc = "regrid" /\ Len(visited) >= 2
    /\ th % jth # 0 /\ jth % th # 0
    /\ visited[2].llr - visited[2].ulr < Min(th, jth)

\* In each axis one tile size is an integer multiple of the other.
IntegerRatios ==
    /\ (th % jth = 0 \/ jth % th = 0)
    /\ (tw % jtw = 0 \/ jtw % tw = 0)

\* C10: fan-in.  With integer ratios in both axes, every destination tile is
\* assembled from exactly max(1, jth/th) * max(1, jtw/tw) reads of distinct
\* source tiles and holds the source image under it (with one source tile:
\* the matching part of that tile), and a finished loop has emitted
\* (H/jth) * (W/jtw) tiles.
C10_FanIn ==
    (pc = "regrid" /\ IntegerRatios) =>
        /\ TileAssembled =>
              /\ Len(visited) = Max(1, jth \div th) * Max(1, jtw \div tw)
              /\ \A k, m \in 1 .. Len(visited) :
                    visited[k].tilenum = visited[m].tilenum => k = m
              /\ jp2k_tile = DestTile(idx, jth, jtw)
              /\ Len(visited) = 1 =>
                    LET t == visited[1].tilenum
                        r0 == (t \div num_tiff_tile_cols) * th
                        c0 == (t % num_tiff_tile_cols) * tw
                    IN  \A p \in Cells(jth, jtw) :
                            jp2k_tile[p] =
                                ReadEncodedTile(t)[
                                    <<julr - r0 + p[1], julc - c0 + p[2]>>]
        /\ LoopFinished("regrid") =>
              Len(writes) = (imageheight \div jth) * (imagewidth \div jtw)

C10_Witness ==
    /\ TileAssembled
    /\ imageheight = 4 /\ imagewidth = 4
    /\ th = 1 /\ tw = 1 /\ jth = 2 /\ jtw = 2
    /\ idx = 3 /\ Len(visited) = 4

====
